---- MODULE Spec2Model ----
(***************************************************************************)
(* Contiguous frame pool allocator (MP2/MP2_Sources/cont_frame_pool.C).    *)
(*                                                                         *)
(* Physical memory is modelled byte by byte: a pool's bitmap is the region *)
(* of memory its `bitmap` pointer addresses, and get_state / set_state     *)
(* compute the byte and the bit offset exactly as the code does (from the  *)
(* absolute frame number).  Pools are objects in construction order; the   *)
(* registry is the static frame_pools_list with the pools' next links.     *)
(* A failed assert halts the machine.                                      *)
(***************************************************************************)
EXTENDS Integers, Sequences, FiniteSets, TLC

(* ------------------------------ bounds --------------------------------- *)

\* bytes per frame (4096 in the kernel), scaled down
FRAME_SIZE == 1
\* number of pools that are constructed
MaxPools == 2
\* release_frames raises nFreeFrames without an upper limit: the counter is
\* followed up to this much above nframes, and a client releases a frame that
\* is already Free only while the counter exceeds the number of Free frames
\* by less than this
MaxDrift == 1

\* highest frame number whose state is written in the codec's specification
MaxCodecFrame == 5

\* first frame number the pools use: not a multiple of 4, so that a pool's
\* frames share bytes of the bitmap with frames outside the pool
FirstFrame == 2

\* frames whose state fits in one info frame: FRAME_SIZE * 4 (line 138)
PoolCapacity == FRAME_SIZE * 4
\* frame numbers used as inputs
MaxFrameNo == FirstFrame + 2 * PoolCapacity - 1
Frames == 0 .. MaxFrameNo
\* modelled physical memory: every byte a bound bitmap pointer can address
MemSize == MaxFrameNo * FRAME_SIZE + (MaxFrameNo \div 4) + 1
Addrs == 0 .. (MemSize - 1)

\* inputs of the constructor: two adjacent ranges; a bitmap hosted by the
\* pool itself (0) or in the second frame of the upper range, which is the
\* frame a client of the upper pool is given first
PoolBases == {FirstFrame, FirstFrame + PoolCapacity}
PoolCounts == {PoolCapacity, PoolCapacity + 1}
InfoFrames == {0, FirstFrame + PoolCapacity + 1}
\* inputs of get_frames and release_frames
Requests == 0 .. (PoolCapacity + 1)
ReleaseArgs == 0 .. (MaxFrameNo + 1)

\* contents of memory at boot: zeroed, or a leftover byte pattern
\* (255 = four times the code 11)
BootBytes == {0, 255}
\* values the member `bitmap` can hold before line 165/169 assigns it:
\* a null pointer, or an address outside the modelled memory
UninitBitmap == {0, MemSize}

(* --------------------------- bitmap codec ------------------------------ *)

\* 1 << k, for the bit offsets 0, 2, 4 and 6
Pow2(k) == <<1, 4, 16, 64>>[(k \div 2) + 1]

\* the 2-bit codes written by set_state (lines 329-339)
StateBits(s) == CASE s = "Free" -> 0
                  [] s = "Used" -> 1
                  [] s = "HoS" -> 2

\* the byte bitmap[byte_index] of lines 305 and 325: the index is taken from
\* the frame number as it is passed, not from its distance to base_frame_no
byte_index(frame_no) == frame_no \div 4
byte_address(bitmap, frame_no) == bitmap + byte_index(frame_no)

\* get_state: byte _frame_no / 4, bit offset (_frame_no * 2) % 8;
\* code 11 is the failed assert of the default branch
get_state(m, bitmap, frame_no) ==
    LET bit_offset == (frame_no * 2) % 8
        state_bits == (m[byte_address(bitmap, frame_no)] \div Pow2(bit_offset)) % 4
    IN  CASE state_bits = 0 -> "Free"
          [] state_bits = 1 -> "Used"
          [] state_bits = 2 -> "HoS"
          [] OTHER -> "Invalid"

\* set_state without line 341: the new code is or-ed into the field as it is
Or2(a, b) ==
    (IF a % 2 = 1 \/ b % 2 = 1 THEN 1 ELSE 0)
        + (IF a \div 2 = 1 \/ b \div 2 = 1 THEN 2 ELSE 0)

set_state_no_clear(m, bitmap, frame_no, s) ==
    LET bit_offset == (frame_no * 2) % 8
        addr == byte_address(bitmap, frame_no)
    IN  IF addr \notin DOMAIN m THEN m
        ELSE LET old == m[addr]
                 field == (old \div Pow2(bit_offset)) % 4
             IN  [m EXCEPT ![addr] = old - field * Pow2(bit_offset)
                                         + Or2(field, StateBits(s)) * Pow2(bit_offset)]

\* set_state: clear the 2-bit field, then or in the new code.  A write to an
\* address outside the modelled memory lands in memory the model does not hold.
set_state(m, bitmap, frame_no, s) ==
    LET bit_offset == (frame_no * 2) % 8
        addr == byte_address(bitmap, frame_no)
    IN  IF addr \notin DOMAIN m THEN m
        ELSE LET old == m[addr]
                 cleared == old - ((old \div Pow2(bit_offset)) % 4) * Pow2(bit_offset)
             IN  [m EXCEPT ![addr] = cleared + StateBits(s) * Pow2(bit_offset)]

\* the assert of line 138 with the limit one frame too high
fits_single_page_one_more(n_frames) == n_frames <= FRAME_SIZE * 4 + 1

\* the assert of line 138
fits_single_page(n_frames) == n_frames <= FRAME_SIZE * 4

needed_info_frames(n_frames) ==
    (n_frames \div (4 * FRAME_SIZE))
        + (IF n_frames % (4 * FRAME_SIZE) > 0 THEN 1 ELSE 0)

(* ------------------------- mark_inaccessible --------------------------- *)

\* the loop of lines 243-246
RECURSIVE mark_rest(_, _, _, _)
mark_rest(m, bitmap, current_frame_no, end) ==
    IF current_frame_no >= end THEN [status |-> "ok", mem |-> m]
    ELSE LET s == get_state(m, bitmap, current_frame_no)
         IN  IF s = "Invalid" THEN [status |-> "InvalidState", mem |-> m]
             ELSE IF s # "Free"
             THEN [status |-> "InvalidReservationTarget", mem |-> m]
             ELSE mark_rest(set_state(m, bitmap, current_frame_no, "Used"),
                            bitmap, current_frame_no + 1, end)

\* mark_inaccessible with the loop bound one too far (<= for <)
mark_inaccessible_one_more(m, pool, base, n) ==
    LET s == get_state(m, pool.bitmap, base)
    IN  IF s = "Invalid"
        THEN [status |-> "InvalidState", mem |-> m, nFreeFrames |-> pool.nFreeFrames]
        ELSE IF s # "Free" \/ base + n > pool.base_frame_no + pool.nframes
        THEN [status |-> "InvalidReservationTarget", mem |-> m,
              nFreeFrames |-> pool.nFreeFrames]
        ELSE LET r == mark_rest(set_state(m, pool.bitmap, base, "HoS"),
                                pool.bitmap, base + 1, base + n + 1)
             IN  [status |-> r.status, mem |-> r.mem,
                  nFreeFrames |-> IF r.status = "ok" THEN pool.nFreeFrames - n
                                  ELSE pool.nFreeFrames]

mark_inaccessible(m, pool, base, n) ==
    LET s == get_state(m, pool.bitmap, base)
    IN  IF s = "Invalid"
        THEN [status |-> "InvalidState", mem |-> m, nFreeFrames |-> pool.nFreeFrames]
        ELSE IF s # "Free" \/ base + n > pool.base_frame_no + pool.nframes
        THEN [status |-> "InvalidReservationTarget", mem |-> m,
              nFreeFrames |-> pool.nFreeFrames]
        ELSE LET r == mark_rest(set_state(m, pool.bitmap, base, "HoS"),
                                pool.bitmap, base + 1, base + n)
             IN  [status |-> r.status, mem |-> r.mem,
                  nFreeFrames |-> IF r.status = "ok" THEN pool.nFreeFrames - n
                                  ELSE pool.nFreeFrames]

(* ------------------------------ get_frames ----------------------------- *)

\* the scan of lines 201-223: the first frame at which the count of
\* consecutive Free frames reaches n
\* scan_frames with the start of the sequence moved on at every Free frame
\* (the test n_contiguous_frames_found == 0 left out)
RECURSIVE scan_frames_restart(_, _, _, _, _, _)
scan_frames_restart(m, pool, current_frame_no, first_frame_of_sequence, found, n) ==
    IF current_frame_no >= pool.base_frame_no + pool.nframes
    THEN [status |-> "NoContiguousRegion", head |-> 0]
    ELSE LET s == get_state(m, pool.bitmap, current_frame_no)
         IN  IF s = "Invalid" THEN [status |-> "InvalidState", head |-> 0]
             ELSE IF s = "Free"
             THEN IF found + 1 = n THEN [status |-> "ok", head |-> current_frame_no]
                  ELSE scan_frames_restart(m, pool, current_frame_no + 1,
                                           current_frame_no, found + 1, n)
             ELSE scan_frames_restart(m, pool, current_frame_no + 1,
                                      first_frame_of_sequence, 0, n)

\* scan_frames with the count of Free frames not reset at a frame that is
\* not Free (the else branch left out)
RECURSIVE scan_frames_no_reset(_, _, _, _, _, _)
scan_frames_no_reset(m, pool, current_frame_no, first_frame_of_sequence, found, n) ==
    IF current_frame_no >= pool.base_frame_no + pool.nframes
    THEN [status |-> "NoContiguousRegion", head |-> 0]
    ELSE LET s == get_state(m, pool.bitmap, current_frame_no)
         IN  IF s = "Invalid" THEN [status |-> "InvalidState", head |-> 0]
             ELSE IF s = "Free"
             THEN LET first == IF found = 0 THEN current_frame_no
                               ELSE first_frame_of_sequence
                  IN  IF found + 1 = n THEN [status |-> "ok", head |-> first]
                      ELSE scan_frames_no_reset(m, pool, current_frame_no + 1,
                                                first, found + 1, n)
             ELSE scan_frames_no_reset(m, pool, current_frame_no + 1,
                                       first_frame_of_sequence, found, n)

RECURSIVE scan_frames(_, _, _, _, _, _)
scan_frames(m, pool, current_frame_no, first_frame_of_sequence, found, n) ==
    IF current_frame_no >= pool.base_frame_no + pool.nframes
    THEN [status |-> "NoContiguousRegion", head |-> 0]
    ELSE LET s == get_state(m, pool.bitmap, current_frame_no)
         IN  IF s = "Invalid" THEN [status |-> "InvalidState", head |-> 0]
             ELSE IF s = "Free"
             THEN LET first == IF found = 0 THEN current_frame_no
                               ELSE first_frame_of_sequence
                  IN  IF found + 1 = n THEN [status |-> "ok", head |-> first]
                      ELSE scan_frames(m, pool, current_frame_no + 1, first,
                                       found + 1, n)
             ELSE scan_frames(m, pool, current_frame_no + 1,
                              first_frame_of_sequence, 0, n)

get_frames(m, pool, n) ==
    IF pool.nFreeFrames < n \/ n > pool.nframes
    THEN [status |-> "InsufficientFreeFrames", head |-> 0, mem |-> m,
          nFreeFrames |-> pool.nFreeFrames]
    ELSE LET f == scan_frames(m, pool, pool.base_frame_no, 0, 0, n)
         IN  IF f.status # "ok"
             THEN [status |-> f.status, head |-> 0, mem |-> m,
                   nFreeFrames |-> pool.nFreeFrames]
             ELSE LET r == mark_inaccessible(m, pool, f.head, n)
                  IN  [status |-> r.status, head |-> f.head, mem |-> r.mem,
                       nFreeFrames |-> r.nFreeFrames]

(* ----------------------------- release_frames -------------------------- *)

\* the registry walk of lines 256-289: 0 is nullptr
RECURSIVE find_pool(_, _, _)
find_pool(ps, current_pool, first_frame_no) ==
    IF current_pool = 0 THEN 0
    ELSE IF first_frame_no >= ps[current_pool].base_frame_no
            /\ first_frame_no < ps[current_pool].base_frame_no + ps[current_pool].nframes
    THEN current_pool
    ELSE find_pool(ps, ps[current_pool].next, first_frame_no)

\* the loop of lines 270-279
RECURSIVE release_walk(_, _, _, _)
release_walk(m, pool, current_frame, free) ==
    IF current_frame >= pool.base_frame_no + pool.nframes
    THEN [status |-> "ok", mem |-> m, nFreeFrames |-> free]
    ELSE LET s == get_state(m, pool.bitmap, current_frame)
         IN  IF s = "Invalid"
             THEN [status |-> "InvalidState", mem |-> m, nFreeFrames |-> free]
             ELSE IF s = "Used"
             THEN release_walk(set_state(m, pool.bitmap, current_frame, "Free"),
                               pool, current_frame + 1, free + 1)
             ELSE [status |-> "ok", mem |-> m, nFreeFrames |-> free]

release_frames(m, ps, list, first_frame_no) ==
    LET owner == find_pool(ps, list, first_frame_no)
    IN  IF owner = 0
        THEN [status |-> "UnknownFrame", owner |-> 0, mem |-> m, pools |-> ps]
        ELSE LET r == release_walk(set_state(m, ps[owner].bitmap, first_frame_no, "Free"),
                                   ps[owner], first_frame_no + 1,
                                   ps[owner].nFreeFrames + 1)
             IN  [status |-> r.status, owner |-> owner, mem |-> r.mem,
                  pools |-> [ps EXCEPT ![owner].nFreeFrames = r.nFreeFrames]]

\* the pools met by following next from the list head, as release_frames
\* (lines 256-289) and print_pool_info (lines 348-368) do
RECURSIVE walk(_, _)
walk(ps, current_pool) ==
    IF current_pool = 0 THEN <<>>
    ELSE <<current_pool>> \o walk(ps, ps[current_pool].next)

(* -------------------------------- state -------------------------------- *)

\* the frames of a pool, and how many of them its bitmap reports Free
PoolFrames(pool) == pool.base_frame_no .. (pool.base_frame_no + pool.nframes - 1)
FreeCount(m, pool) ==
    Cardinality({f \in PoolFrames(pool) : get_state(m, pool.bitmap, f) = "Free"})

VARIABLES
    mem,                \* physical memory, byte by byte
    pools,              \* the constructed pool objects, in construction order
    frame_pools_list,   \* the static registry head (0 = nullptr)
    halted,             \* "" or the condition of the failed assert
    boot                \* history: the byte memory was filled with at boot

vars == <<mem, pools, frame_pools_list, halted, boot>>

PoolIds == 1 .. Len(pools)

Init ==
    /\ boot \in BootBytes
    /\ mem = [a \in Addrs |-> boot]
    /\ pools = <<>>
    /\ frame_pools_list = 0
    /\ halted = ""

\* the Free marking of lines 155-157, through the `bitmap` member as it is then
RECURSIVE mark_all_free(_, _, _, _)
mark_all_free(m, bitmap, i, end) ==
    IF i >= end THEN m
    ELSE mark_all_free(set_state(m, bitmap, i, "Free"), bitmap, i + 1, end)

\* lines 173-181: the registry is appended to through the list head
register(ps, list, pool) ==
    LET id == Len(ps) + 1
        linked == IF list = 0 THEN ps ELSE [ps EXCEPT ![list].next = id]
        newlist == IF list = 0 THEN id ELSE list
    IN  [pools |-> Append(linked, [pool EXCEPT !.prev = newlist]), list |-> newlist]

\* ContFramePool::ContFramePool.  The class declaration is not among the
\* sources: next is taken to be nullptr until line 179 sets it.
Construct(base, n, info) ==
    /\ halted = ""
    /\ UNCHANGED boot
    /\ IF ~fits_single_page(n)
       THEN /\ halted' = "CapacityExceeded"
            /\ UNCHANGED <<mem, pools, frame_pools_list>>
       ELSE \E garbage \in UninitBitmap :
            LET m1 == mark_all_free(mem, garbage, base, base + n)
                self == (info = 0)
                bm == IF self THEN base * FRAME_SIZE ELSE info * FRAME_SIZE
                pool0 == [base_frame_no |-> base, nframes |-> n, nFreeFrames |-> n,
                          info_frame_no |-> IF self THEN base ELSE info,
                          bitmap |-> bm, next |-> 0, prev |-> 0]
                g == IF self THEN get_frames(m1, pool0, needed_info_frames(n))
                     ELSE [status |-> "ok", head |-> 0,
                           mem |-> set_state(m1, bm, info, "Used"),
                           nFreeFrames |-> n]
                reg == register(pools, frame_pools_list,
                                [pool0 EXCEPT !.nFreeFrames = g.nFreeFrames])
            IN  /\ mem' = g.mem
                /\ IF g.status = "ok"
                   THEN /\ pools' = reg.pools
                        /\ frame_pools_list' = reg.list
                        /\ halted' = ""
                   ELSE /\ halted' = g.status
                        /\ UNCHANGED <<pools, frame_pools_list>>

\* ContFramePool::get_frames, called by a client of pool p
GetFrames(p, n) ==
    /\ halted = ""
    /\ p \in PoolIds
    /\ LET g == get_frames(mem, pools[p], n)
       IN  /\ mem' = g.mem
           /\ pools' = [pools EXCEPT ![p].nFreeFrames = g.nFreeFrames]
           /\ halted' = IF g.status = "ok" THEN "" ELSE g.status
    /\ UNCHANGED <<frame_pools_list, boot>>

\* ContFramePool::mark_inaccessible, called by a client of pool p.  The type
\* of nFreeFrames is set by the class declaration, which is not among the
\* sources: a reservation that would take the counter below zero is left out.
MarkInaccessible(p, b, n) ==
    /\ halted = ""
    /\ p \in PoolIds
    /\ LET r == mark_inaccessible(mem, pools[p], b, n)
       IN  /\ r.nFreeFrames >= 0
           /\ mem' = r.mem
           /\ pools' = [pools EXCEPT ![p].nFreeFrames = r.nFreeFrames]
           /\ halted' = IF r.status = "ok" THEN "" ELSE r.status
    /\ UNCHANGED <<frame_pools_list, boot>>

\* ContFramePool::release_frames (static)
ReleaseFrames(f) ==
    /\ halted = ""
    /\ pools # <<>>
    /\ LET r == release_frames(mem, pools, frame_pools_list, f)
       IN  /\ (r.owner # 0 /\ get_state(mem, pools[r.owner].bitmap, f) = "Free")
                 => pools[r.owner].nFreeFrames - FreeCount(mem, pools[r.owner]) < MaxDrift
           /\ \A p \in PoolIds : r.pools[p].nFreeFrames <= pools[p].nframes + MaxDrift
           /\ mem' = r.mem
           /\ pools' = r.pools
           /\ halted' = IF r.status = "ok" THEN "" ELSE r.status
    /\ UNCHANGED <<frame_pools_list, boot>>

\* the caller constructs pools that cover disjoint frame ranges
DisjointFromPools(base, n) ==
    \A p \in PoolIds :
        base + n <= pools[p].base_frame_no
            \/ pools[p].base_frame_no + pools[p].nframes <= base

\* one pool and its clients
NextPool ==
    \/ \E base \in PoolBases, n \in PoolCounts, info \in InfoFrames :
           pools = <<>> /\ Construct(base, n, info)
    \/ \E n \in Requests : GetFrames(1, n)
    \/ \E f \in ReleaseArgs : ReleaseFrames(f)

SpecPool == Init /\ [][NextPool]_vars

\* the codec alone: any sequence of set_state calls on one bitmap buffer,
\* bound where a pool at FirstFrame holds its bitmap
FrameStates == {"Free", "Used", "HoS"}
CodecFrames == 0 .. MaxCodecFrame
CodecBitmap == FirstFrame * FRAME_SIZE

SetState(f, s) ==
    /\ halted = ""
    /\ mem' = set_state(mem, CodecBitmap, f, s)
    /\ UNCHANGED <<pools, frame_pools_list, halted, boot>>

NextCodec == \E f \in CodecFrames, s \in FrameStates : SetState(f, s)

SpecCodec == Init /\ [][NextCodec]_vars

\* one pool whose clients also reserve ranges directly, starting from the
\* frame below the pool up to the frame after it
ReserveArgs(pool) ==
    {b \in Frames : /\ pool.base_frame_no - 1 <= b
                    /\ b <= pool.base_frame_no + pool.nframes}

NextReserve ==
    \/ \E base \in PoolBases, n \in PoolCounts, info \in InfoFrames :
           pools = <<>> /\ Construct(base, n, info)
    \/ \E n \in Requests : GetFrames(1, n)
    \/ \E b \in Frames, n \in Requests :
           /\ pools # <<>>
           /\ b \in ReserveArgs(pools[1])
           /\ MarkInaccessible(1, b, n)
    \/ \E f \in ReleaseArgs : ReleaseFrames(f)

SpecReserve == Init /\ [][NextReserve]_vars

Next ==
    \/ \E base \in PoolBases, n \in PoolCounts, info \in InfoFrames :
           /\ Len(pools) < MaxPools
           /\ DisjointFromPools(base, n)
           /\ Construct(base, n, info)
    \/ \E p \in 1 .. MaxPools, n \in Requests : GetFrames(p, n)
    \/ \E f \in ReleaseArgs : ReleaseFrames(f)

Spec == Init /\ [][Next]_vars

\* the registry: one pool more, built by a caller that passes any of three
\* bases half a pool apart and short or full counts, so that ranges can be
\* adjacent, apart or overlapping; clients release frames
MaxRegistered == MaxPools + 1
RegistryBases == {FirstFrame, FirstFrame + PoolCapacity \div 2, FirstFrame + PoolCapacity}
RegistryCounts == {PoolCapacity \div 2, PoolCapacity}

NextRegistry ==
    \/ \E base \in RegistryBases, n \in RegistryCounts, info \in InfoFrames :
           Len(pools) < MaxRegistered /\ Construct(base, n, info)
    \/ \E f \in ReleaseArgs : ReleaseFrames(f)

SpecRegistry == Init /\ [][NextRegistry]_vars

(* ------------------------- reading the state --------------------------- *)

Live == halted = ""
\* memory was zeroed at boot, so that every bitmap starts all Free whatever
\* the constructor's own Free marking reaches
ZeroBoot == boot = 0

\* the state the bitmap of pool p reports for frame f, in memory m
StateIn(m, p, f) == get_state(m, pools[p].bitmap, f)
State(p, f) == StateIn(mem, p, f)

\* frame f is HoS, or is Used and follows a HoS frame with only Used between
HasHead(m, pool, f) ==
    \E h \in pool.base_frame_no .. (f - 1) :
        /\ get_state(m, pool.bitmap, h) = "HoS"
        /\ \A g \in (h + 1) .. f : get_state(m, pool.bitmap, g) = "Used"

\* the frames of the allocated runs the bitmap of a pool records
RunFrames(m, pool) ==
    {f \in PoolFrames(pool) :
        \/ get_state(m, pool.bitmap, f) = "HoS"
        \/ get_state(m, pool.bitmap, f) = "Used" /\ HasHead(m, pool, f)}

\* the n frames from x on lie in the pool and are all Free
FreeRunAt(m, pool, x, n) ==
    /\ pool.base_frame_no <= x
    /\ x + n <= pool.base_frame_no + pool.nframes
    /\ \A f \in x .. (x + n - 1) : get_state(m, pool.bitmap, f) = "Free"

SelfHosted(pool) == pool.info_frame_no = pool.base_frame_no

(* -------------------------------- claims ------------------------------- *)

\* C1: conservation.  In every state in which the machine runs (memory zeroed
\* at boot), for every pool, nFreeFrames plus the number of frames in
\* allocated runs is nframes.
C1_Conservation ==
    (Live /\ ZeroBoot) => \A p \in PoolIds :
        pools[p].nFreeFrames + Cardinality(RunFrames(mem, pools[p])) = pools[p].nframes

\* C2: nFreeFrames of every pool is the number of its frames that are Free
\* (memory zeroed at boot).
C2_FreeCountExact ==
    (Live /\ ZeroBoot) => \A p \in PoolIds : pools[p].nFreeFrames = FreeCount(mem, pools[p])

\* C3: run structure.  Every Used frame of a pool follows, with no Free frame
\* in between, a HoS frame of the same pool (memory zeroed at boot).
C3_RunStructure ==
    (Live /\ ZeroBoot) => \A p \in PoolIds : \A f \in PoolFrames(pools[p]) :
        State(p, f) = "Used" => HasHead(mem, pools[p], f)

\* C4: run integrity.  When get_frames(n) on pool p returns h, the frames
\* h .. h+n-1 lie in the pool and were Free before the call; after it h is
\* HoS, h+1 .. h+n-1 are Used, nFreeFrames is n less, and every other frame
\* of the pool has the state it had.
C4_RunIntegrity ==
    [][\A p \in PoolIds, n \in Requests :
        (GetFrames(p, n) /\ halted' = "") =>
            LET h == get_frames(mem, pools[p], n).head
            IN  /\ FreeRunAt(mem, pools[p], h, n)
                /\ StateIn(mem', p, h) = "HoS"
                /\ \A f \in (h + 1) .. (h + n - 1) : StateIn(mem', p, f) = "Used"
                /\ pools'[p].nFreeFrames = pools[p].nFreeFrames - n
                /\ \A f \in PoolFrames(pools[p]) \ (h .. (h + n - 1)) :
                       StateIn(mem', p, f) = State(p, f)]_vars

\* a pool that hosts its own bitmap holds a run of three frames: only
\* get_frames writes Used into such a pool
C4_Witness ==
    /\ Live
    /\ \E p \in PoolIds : \E h \in PoolFrames(pools[p]) :
        /\ SelfHosted(pools[p])
        /\ h + 2 \in PoolFrames(pools[p])
        /\ State(p, h) = "HoS"
        /\ State(p, h + 1) = "Used"
        /\ State(p, h + 2) = "Used"
        /\ pools[p].nFreeFrames = FreeCount(mem, pools[p])

\* C5: first fit.  When get_frames(n) on pool p returns h, no frame x of the
\* pool below h starts n Free frames of the pool.
C5_FirstFit ==
    [][\A p \in PoolIds, n \in Requests :
        (GetFrames(p, n) /\ halted' = "") =>
            LET h == get_frames(mem, pools[p], n).head
            IN  /\ FreeRunAt(mem, pools[p], h, n)
                /\ \A x \in pools[p].base_frame_no .. (h - 1) :
                       ~FreeRunAt(mem, pools[p], x, n)]_vars

\* a request of two frames succeeds in a pool with a single Free frame below
\* the head it returns: the shorter run is passed over
C5_Witness ==
    /\ Live
    /\ \E p \in PoolIds :
        LET g == get_frames(mem, pools[p], 2)
        IN  /\ g.status = "ok"
            /\ \E x \in PoolFrames(pools[p]) : x < g.head /\ State(p, x) = "Free"

\* C6: round trip.  In every state, get_frames(n) returning h followed by
\* release_frames(h) leaves every frame of the pool and nFreeFrames as they
\* were before the allocation (memory zeroed at boot).
C6_RoundTrip ==
    (Live /\ ZeroBoot) => \A p \in PoolIds, n \in Requests :
        LET g == get_frames(mem, pools[p], n)
            r == release_frames(g.mem,
                                [pools EXCEPT ![p].nFreeFrames = g.nFreeFrames],
                                frame_pools_list, g.head)
        IN  g.status = "ok" =>
                /\ r.status = "ok"
                /\ \A f \in PoolFrames(pools[p]) :
                       get_state(r.mem, pools[p].bitmap, f) = State(p, f)
                /\ r.pools[p].nFreeFrames = pools[p].nFreeFrames

\* C7: release frees one run.  release_frames(h) on the head h of the run of
\* n frames that get_frames(n) allocated in pool p frees the frames
\* h .. h+n-1 of p, raises p's nFreeFrames by n, and changes no other frame
\* of any pool and no other pool's counter (memory zeroed at boot).
C7_ReleaseFreesOneRun ==
    (Live /\ ZeroBoot) => \A p \in PoolIds, n \in Requests :
        LET g == get_frames(mem, pools[p], n)
            ps == [pools EXCEPT ![p].nFreeFrames = g.nFreeFrames]
            r == release_frames(g.mem, ps, frame_pools_list, g.head)
        IN  g.status = "ok" =>
                /\ r.status = "ok"
                /\ r.owner = p
                /\ r.pools[p].nFreeFrames = g.nFreeFrames + n
                /\ \A q \in PoolIds : \A f \in PoolFrames(pools[q]) :
                       get_state(r.mem, pools[q].bitmap, f)
                           = IF q = p /\ f \in g.head .. (g.head + n - 1)
                             THEN "Free"
                             ELSE get_state(g.mem, pools[q].bitmap, f)
                /\ \A q \in PoolIds \ {p} : r.pools[q] = pools[q]

\* C8: ownership resolution.  With pools of disjoint ranges, release_frames(f)
\* on a head frame f of pool P changes no frame state, counter or registry
\* link of any other pool (memory zeroed at boot).
PoolsDisjoint ==
    \A p, q \in PoolIds :
        p # q => \/ pools[p].base_frame_no + pools[p].nframes <= pools[q].base_frame_no
                 \/ pools[q].base_frame_no + pools[q].nframes <= pools[p].base_frame_no

C8_OwnershipResolution ==
    [][\A f \in ReleaseArgs :
        LET owner == find_pool(pools, frame_pools_list, f)
        IN  (ReleaseFrames(f) /\ ZeroBoot /\ PoolsDisjoint /\ owner # 0
                /\ State(owner, f) = "HoS") =>
                \A q \in PoolIds \ {owner} :
                    /\ pools'[q] = pools[q]
                    /\ \A x \in PoolFrames(pools[q]) :
                           StateIn(mem', q, x) = State(q, x)]_vars

\* C9: release_frames(f) on a frame f of a registered pool that is Free or
\* Used halts with NotHeadOfSequence and changes no frame state or counter
\* (memory zeroed at boot).
C9_NotHeadIsFatal ==
    [][\A f \in ReleaseArgs :
        LET owner == find_pool(pools, frame_pools_list, f)
        IN  (ReleaseFrames(f) /\ ZeroBoot /\ owner # 0
                /\ State(owner, f) \in {"Free", "Used"}) =>
                /\ halted' = "NotHeadOfSequence"
                /\ mem' = mem
                /\ pools' = pools]_vars

\* C10: exhaustion.  get_frames(n) with n above nFreeFrames, n above nframes,
\* or with no n consecutive Free frames in the pool, halts instead of
\* returning a head, and changes no byte of memory and no counter.
NoFreeRun(m, pool, n) ==
    \A x \in PoolFrames(pool) : ~FreeRunAt(m, pool, x, n)

C10_Exhaustion ==
    [][\A p \in PoolIds, n \in Requests :
        (GetFrames(p, n)
            /\ (\/ n > pools[p].nFreeFrames
                \/ n > pools[p].nframes
                \/ (n >= 1 /\ NoFreeRun(mem, pools[p], n)))) =>
            /\ halted' # ""
            /\ mem' = mem
            /\ pools' = pools]_vars

\* a pool has at least as many Free frames as a request that the precondition
\* admits, but no run of that length, and get_frames fails there
C10_Witness ==
    /\ Live
    /\ \E p \in PoolIds : \E n \in Requests :
        /\ n >= 2
        /\ n <= pools[p].nFreeFrames
        /\ n <= FreeCount(mem, pools[p])
        /\ NoFreeRun(mem, pools[p], n)
        /\ get_frames(mem, pools[p], n).status = "NoContiguousRegion"

\* C11: unknown frame.  With pools of disjoint ranges (memory zeroed at boot),
\* release_frames(f) halts with UnknownFrame if and only if no constructed
\* pool's range contains f, however many pools were constructed; a frame
\* inside a pool is released in that pool.
C11_UnknownFrame ==
    [][\A f \in ReleaseArgs :
        (ReleaseFrames(f) /\ ZeroBoot /\ PoolsDisjoint) =>
            LET owners == {p \in PoolIds : f \in PoolFrames(pools[p])}
            IN  /\ (halted' = "UnknownFrame") <=> (owners = {})
                /\ \A p \in owners :
                       /\ StateIn(mem', p, f) = "Free"
                       /\ pools'[p].nFreeFrames > pools[p].nFreeFrames]_vars

\* C12: registry order.  After the pools 1 .. k were constructed in that
\* order, following next from the list head visits exactly 1, 2, ..., k and
\* ends, and the prev of every pool after the first is the pool constructed
\* just before it.
C12_RegistryOrder ==
    Live => /\ walk(pools, frame_pools_list) = [i \in 1 .. Len(pools) |-> i]
            /\ \A p \in 2 .. Len(pools) : pools[p].prev = p - 1

\* C17: any two distinct pools reached from the registry head have disjoint
\* frame ranges.
Registered ==
    LET w == walk(pools, frame_pools_list) IN {w[i] : i \in 1 .. Len(w)}

C17_RangesDisjoint ==
    \A p, q \in Registered :
        p # q => \/ pools[p].base_frame_no + pools[p].nframes <= pools[q].base_frame_no
                 \/ pools[q].base_frame_no + pools[q].nframes <= pools[p].base_frame_no

\* C13: self-hosting bootstrap.  Constructing a pool with info_frame = 0 and
\* a count that needs one info frame succeeds and leaves frame base HoS,
\* every other frame of the pool Free and nFreeFrames = count - 1, and the
\* byte that holds the state of frame base lies in frame base itself.
C13_SelfHostingBootstrap ==
    [][\A base \in PoolBases, n \in PoolCounts :
        (Construct(base, n, 0) /\ n <= FRAME_SIZE * 4 /\ needed_info_frames(n) = 1) =>
            /\ halted' = ""
            /\ Len(pools') = Len(pools) + 1
            /\ LET pool == pools'[Len(pools')]
               IN  /\ pool.base_frame_no = base
                   /\ pool.nframes = n
                   /\ pool.bitmap = base * FRAME_SIZE
                   /\ get_state(mem', pool.bitmap, base) = "HoS"
                   /\ \A f \in (base + 1) .. (base + n - 1) :
                          get_state(mem', pool.bitmap, f) = "Free"
                   /\ pool.nFreeFrames = n - 1
                   /\ byte_address(pool.bitmap, base) \div FRAME_SIZE = base]_vars

\* C14: capacity.  Every constructed pool has nframes <= FRAME_SIZE * 4, and
\* a construction with a larger count halts with no byte of memory, no pool
\* and no registry link changed.
C14_Capacity ==
    [][\A base \in PoolBases, n \in PoolCounts, info \in InfoFrames :
        Construct(base, n, info) =>
            /\ \A p \in 1 .. Len(pools') : pools'[p].nframes <= FRAME_SIZE * 4
            /\ n > FRAME_SIZE * 4 =>
                   /\ halted' = "CapacityExceeded"
                   /\ mem' = mem
                   /\ pools' = pools
                   /\ frame_pools_list' = frame_pools_list]_vars

\* the construction of a pool that is too large has halted the machine with
\* memory as it was at boot and no pool registered
C14_Witness ==
    /\ halted = "CapacityExceeded"
    /\ pools = <<>>
    /\ frame_pools_list = 0
    /\ \A a \in Addrs : mem[a] = boot

\* C19: construction leaves the bitmap all Free.  Right after a pool was
\* constructed, the bitmap it is bound to reports every frame of the pool
\* Free, except the frames reserved for the bitmap, whatever memory held
\* before.
C19_ConstructionAllFree ==
    [][\A base \in PoolBases, n \in PoolCounts, info \in InfoFrames :
        (Construct(base, n, info) /\ halted' = "") =>
            LET pool == pools'[Len(pools')]
                reserved == IF info = 0
                            THEN base .. (base + needed_info_frames(n) - 1)
                            ELSE {info}
            IN  /\ pool.bitmap = (IF info = 0 THEN base ELSE info) * FRAME_SIZE
                /\ \A f \in PoolFrames(pool) \ reserved :
                       get_state(mem', pool.bitmap, f) = "Free"]_vars

\* C15: precondition of mark_inaccessible (memory zeroed at boot).
\* mark_inaccessible(b, n) on pool p halts and changes no byte of memory and
\* no counter unless frame b is Free and base <= b and b + n <= base + count.
C15_ReservationPrecondition ==
    [][\A p \in PoolIds, b \in Frames, n \in Requests :
        (/\ MarkInaccessible(p, b, n)
         /\ ZeroBoot
         /\ ~(/\ State(p, b) = "Free"
              /\ pools[p].base_frame_no <= b
              /\ b + n <= pools[p].base_frame_no + pools[p].nframes)) =>
            /\ halted' # ""
            /\ mem' = mem
            /\ pools' = pools]_vars

\* C16: effect of mark_inaccessible (memory zeroed at boot).  A call
\* mark_inaccessible(b, n) on a frame b of pool p that returns, for every n,
\* leaves b HoS and the n - 1 frames after it Used, every frame of the pool
\* outside b .. b+n-1 as it was, and nFreeFrames n less; if nFreeFrames was
\* the number of Free frames before, it is so afterwards.
C16_ReservationEffect ==
    [][\A p \in PoolIds, b \in Frames, n \in Requests :
        (/\ MarkInaccessible(p, b, n)
         /\ halted' = ""
         /\ ZeroBoot
         /\ b \in PoolFrames(pools[p])) =>
            /\ \A f \in b .. (b + n - 1) :
                   StateIn(mem', p, f) = IF f = b THEN "HoS" ELSE "Used"
            /\ \A f \in PoolFrames(pools[p]) \ (b .. (b + n - 1)) :
                   StateIn(mem', p, f) = State(p, f)
            /\ pools'[p].nFreeFrames = pools[p].nFreeFrames - n
            /\ pools[p].nFreeFrames = FreeCount(mem, pools[p])
                   => pools'[p].nFreeFrames = FreeCount(mem', pools'[p])]_vars

\* C18: the bitmap fits in one frame.  For every frame f of every pool, the
\* byte get_state / set_state access is at offset (f - base) / 4 from the
\* start of the bitmap buffer, an offset in [0, FRAME_SIZE), and so lies in
\* the pool's info frame.
C18_BitmapFitsOneFrame ==
    Live => \A p \in PoolIds : \A f \in PoolFrames(pools[p]) :
        LET offset == byte_address(pools[p].bitmap, f) - pools[p].bitmap
        IN  /\ offset = (f - pools[p].base_frame_no) \div 4
            /\ 0 <= offset /\ offset < FRAME_SIZE
            /\ byte_address(pools[p].bitmap, f) \div FRAME_SIZE = pools[p].info_frame_no

\* C20: codec round trip and isolation.  In every memory, for every frame f
\* and state s, get_state(f) after set_state(f, s) is s, the other three
\* frames of f's byte keep their states, and every other byte is unchanged.
C20_CodecRoundTrip ==
    \A f \in CodecFrames, s \in FrameStates :
        LET m2 == set_state(mem, CodecBitmap, f, s)
        IN  /\ get_state(m2, CodecBitmap, f) = s
            /\ \A k \in 0 .. 3 :
                   LET g == 4 * (f \div 4) + k
                   IN  g # f => get_state(m2, CodecBitmap, g)
                                    = get_state(mem, CodecBitmap, g)
            /\ \A a \in Addrs \ {byte_address(CodecBitmap, f)} : m2[a] = mem[a]

\* one byte of the bitmap holds a Used, a HoS and a Free frame next to a
\* leftover code 11, and the byte after it a HoS frame
C20_Witness ==
    /\ boot = 255
    /\ get_state(mem, CodecBitmap, 0) = "Used"
    /\ get_state(mem, CodecBitmap, 1) = "HoS"
    /\ get_state(mem, CodecBitmap, 2) = "Free"
    /\ get_state(mem, CodecBitmap, 3) = "Invalid"
    /\ get_state(mem, CodecBitmap, 4) = "HoS"

\* C21: the code 11 is never produced.  After any sequence of constructions,
\* get_frames, mark_inaccessible and release_frames calls, the bitmap of
\* every pool holds a code other than 11 for every frame of the pool, and no
\* call has ended in the InvalidState failure.
C21_NoInvalidCode ==
    /\ halted # "InvalidState"
    /\ \A p \in PoolIds : \A f \in PoolFrames(pools[p]) : State(p, f) # "Invalid"

\* C22: get_frames finds a run whenever there is one (memory zeroed at boot).
\* For every n with n <= nFreeFrames and n <= nframes, n = 0 included:
\* get_frames(n) returns whenever the pool holds n consecutive Free frames,
\* and ends in NoContiguousRegion only if it holds none.
C22_SucceedsWhenRunExists ==
    [][\A p \in PoolIds, n \in Requests :
        (/\ GetFrames(p, n)
         /\ ZeroBoot
         /\ n <= pools[p].nFreeFrames
         /\ n <= pools[p].nframes) =>
            /\ (\E x \in PoolFrames(pools[p]) : FreeRunAt(mem, pools[p], x, n))
                   => halted' = ""
            /\ halted' = "NoContiguousRegion" => NoFreeRun(mem, pools[p], n)]_vars

====
